---- MODULE Spec2Model ----
(***************************************************************************)
(* Knowledge Pad: PDF ingest (extract -> chunk -> id -> embed -> insert),  *)
(* semantic search with an optional document filter, and the upload        *)
(* endpoint built on them.                                                  *)
(*                                                                         *)
(* Text is a sequence of one-character strings.  Two specifications share  *)
(* the module:                                                             *)
(*   ChunkSpec  runs the loop of chunk_text one iteration per step on      *)
(*              every small text and every small (chunk_size, overlap);    *)
(*   Spec       runs add_pdf_to_db / upload_pdf / search against the       *)
(*              collection with the production parameters.                 *)
(***************************************************************************)
EXTENDS Integers, Sequences, FiniteSets, TLC

VARIABLES
    \* ---- chunk_text (src/vector_db.py:128-162) ----
    text,          \* the argument `text`
    chunk_size,    \* the argument `chunk_size`
    overlap,       \* the argument `overlap`
    start,         \* the cursor `start`
    chunks,        \* the list `chunks` built so far
    cpc,           \* "off" | "loop" | "done"
    windows,       \* history: the cursor and final `end` of every pass of the loop
    \* ---- the collection, add_pdf_to_db, search, upload_pdf ----
    index,         \* rows of the collection "knowledge_documents", in insertion order
    next_id,       \* the next auto-generated primary key
    pc,            \* "idle" | "loop": where add_pdf_to_db stands
    cur,           \* the running add_pdf_to_db call: pdf_filename and the file read
    pi,            \* position in page_chunks of the page being chunked (1-based)
    ci,            \* chunk_idx within that page (0-based)
    batch,         \* the rows prepared so far (embeddings, text_chunks, ... zipped)
    total_chunks,  \* the local counter total_chunks
    temp_files,    \* names of the files present in TEMP_DIR
    temp_path,     \* the file the latest upload request saved to TEMP_DIR
    resp,          \* what the last operation handed back to its caller
    calls          \* history: one record per finished add_pdf_to_db call

chunkVars == <<text, chunk_size, overlap, start, chunks, cpc, windows>>
dbVars == <<index, next_id, pc, cur, pi, ci, batch, total_chunks, temp_files, temp_path, resp, calls>>

----------------------------------------------------------------------------
(* Bounds of the chunker exploration *)

MaxLen == 6
MaxChunkSize == 5
MaxOverlap == 5
MaxIter == 8

Alphabet == {"a", ".", "\n"}

\* str.strip() removes these
Whitespace == {" ", "\n", "\t"}

----------------------------------------------------------------------------
(* Python string primitives *)

Min2(a, b) == IF a < b THEN a ELSE b
Max2(a, b) == IF a > b THEN a ELSE b

\* a slice bound, clamped the way Python clamps it (negative counts from the end)
PyIndex(i, n) == IF i < 0 THEN Max2(n + i, 0) ELSE Min2(i, n)

\* s[a:b]
PySlice(s, a, b) ==
    LET lo == PyIndex(a, Len(s))
        hi == PyIndex(b, Len(s))
    IN  IF lo >= hi THEN <<>> ELSE SubSeq(s, lo + 1, hi)

\* s.rfind(c): 0-based offset of the last c, or -1
rfind(s, c) ==
    LET at == {i \in 1..Len(s) : s[i] = c}
    IN  IF at = {} THEN -1 ELSE (CHOOSE i \in at : \A j \in at : j <= i) - 1

\* s.strip()
strip(s) ==
    LET n    == Len(s)
        text_at(i) == s[i] \notin Whitespace
    IN  IF \A i \in 1..n : ~text_at(i)
        THEN <<>>
        ELSE SubSeq(s, CHOOSE i \in 1..n : text_at(i) /\ \A j \in 1..(i - 1) : ~text_at(j),
                       CHOOSE i \in 1..n : text_at(i) /\ \A j \in (i + 1)..n : ~text_at(j))

----------------------------------------------------------------------------
(* chunk_text: one iteration of the while loop *)

\* break_point = max(last_period, last_newline)
BreakPoint(chunk) == Max2(rfind(chunk, "."), rfind(chunk, "\n"))

\* a slip: ">=" for ">"
PastHalf_AtHalf(break_point, cs) == 2 * break_point >= cs

\* break_point > chunk_size * 0.5
PastHalf(break_point, cs) == 2 * break_point > cs

\* a slip: the overlap added instead of subtracted
NextStart_Forward(end, ov) == end + ov

\* start = end - overlap
NextStart(end, ov) == end - ov

\* the body of the loop at cursor st: the chunk appended, the final `end`,
\* and the next cursor
LoopBody(t, cs, ov, st) ==
    LET end0   == st + cs
        chunk0 == PySlice(t, st, end0)
        bp     == BreakPoint(chunk0)
        snap   == end0 < Len(t) /\ PastHalf(bp, cs)
        end1   == IF snap THEN st + bp + 1 ELSE end0
        chunk1 == IF snap THEN PySlice(t, st, st + bp + 1) ELSE chunk0
    IN  [chunk  |-> strip(chunk1),
         end    |-> end1,
         next   |-> NextStart(end1, ov)]

\* chunk_text as a function, for callers whose parameters let it return
RECURSIVE ChunkFrom(_, _, _, _)
ChunkFrom(t, cs, ov, st) ==
    IF st < Len(t)
    THEN LET b == LoopBody(t, cs, ov, st)
         IN  <<b.chunk>> \o ChunkFrom(t, cs, ov, b.next)
    ELSE <<>>

chunk_text(t, cs, ov) == ChunkFrom(t, cs, ov, 0)

----------------------------------------------------------------------------
(* ChunkSpec: the loop of chunk_text, one iteration per step *)

RECURSIVE SeqsUpTo(_, _)
SeqsUpTo(S, n) ==
    IF n = 0 THEN {<<>>}
    ELSE LET shorter == SeqsUpTo(S, n - 1)
         IN  shorter \cup {Append(s, c) : s \in {x \in shorter : Len(x) = n - 1}, c \in S}

\* "Sentence one. Sentence two. Sentence three."
SentenceText ==
    <<"S","e","n","t","e","n","c","e"," ","o","n","e","."," ",
      "S","e","n","t","e","n","c","e"," ","t","w","o","."," ",
      "S","e","n","t","e","n","c","e"," ","t","h","r","e","e",".">>

SentenceOne == <<"S","e","n","t","e","n","c","e"," ","o","n","e",".">>

NoCall == [pdf_filename |-> <<>>, file |-> 0]
NoResp == [op |-> "none"]
\* temp_path before any upload request has saved a file
NoPath == <<>>

\* the state after KnowledgePadVectorDB() created the collection; no request yet
DbInit ==
    /\ index = <<>>
    /\ next_id = 1
    /\ pc = "idle"
    /\ cur = NoCall
    /\ pi = 0
    /\ ci = 0
    /\ batch = <<>>
    /\ total_chunks = 0
    /\ temp_files = {}
    /\ temp_path = NoPath
    /\ resp = NoResp
    /\ calls = <<>>

ChunkCall(t, cs, ov) ==
    /\ DbInit
    /\ text = t
    /\ chunk_size = cs
    /\ overlap = ov
    /\ start = 0
    /\ chunks = <<>>
    /\ windows = <<>>
    /\ cpc = "loop"

ChunkInit ==
    \/ \E t \in SeqsUpTo(Alphabet, MaxLen), cs \in 1..MaxChunkSize, ov \in 0..MaxOverlap :
           ChunkCall(t, cs, ov)
    \/ ChunkCall(SentenceText, 20, 5)

\* while start < text_length: one pass through the body
ChunkIterate ==
    /\ cpc = "loop"
    /\ start < Len(text)
    /\ Len(chunks) < MaxIter
    /\ LET b == LoopBody(text, chunk_size, overlap, start)
       IN  /\ chunks' = Append(chunks, b.chunk)
           /\ start' = b.next
           /\ windows' = Append(windows, [start |-> start, end |-> b.end])
    /\ UNCHANGED <<text, chunk_size, overlap, cpc>>
    /\ UNCHANGED dbVars

\* the loop condition fails: return chunks
ChunkReturn ==
    /\ cpc = "loop"
    /\ ~(start < Len(text))
    /\ cpc' = "done"
    /\ UNCHANGED <<text, chunk_size, overlap, start, chunks, windows>>
    /\ UNCHANGED dbVars

ChunkNext == ChunkIterate \/ ChunkReturn

vars == <<chunkVars, dbVars>>

ChunkSpec == ChunkInit /\ [][ChunkNext]_vars

----------------------------------------------------------------------------
(* The documents ingested: production parameters, concrete pages *)

IngestChunkSize == 500
IngestOverlap == 50
MinChunkLen == 50
MaxTextLen == 2000

MaxCalls == 2

Rep(c, n) == [i \in 1..n |-> c]

BlankPage  == <<" ", "\n", " ">>
ShortPage  == Rep("a", 30)
MediumPage == Rep("a", 59) \o <<".">>
\* snaps at the '.' at offset 300: chunks of 301 and 269 characters
LongPage   == Rep("a", 300) \o <<".">> \o Rep("b", 219)
\* a full window of 495 characters, then a second chunk that trims to 45
TailPage   == Rep("c", 495) \o Rep(" ", 10)

\* a PDF: readable or not, and the text page.extract_text() gives for each page
Files ==
    << [readable |-> FALSE, pages |-> <<>>],
       [readable |-> TRUE,  pages |-> <<BlankPage>>],
       [readable |-> TRUE,  pages |-> <<ShortPage>>],
       [readable |-> TRUE,  pages |-> <<MediumPage>>],
       [readable |-> TRUE,  pages |-> <<LongPage, BlankPage, TailPage>>] >>

NameA   == <<"a", ".", "p", "d", "f">>
NameB   == <<"b", ".", "P", "D", "F">>
NameC   == <<"c", ".", "p", "d", "f">>
NameTxt == <<"a", ".", "t", "x", "t">>
\* a".pdf
NameQuote == <<"a", "\"", ".", "p", "d", "f">>

UploadNames == {NameA, NameB, <<>>, NameTxt}
\* Python's None: equal to no string of characters
None == <<"None">>
Filters == {None, <<>>, NameA, NameC, NameQuote}
TopKs == {1, 5}

----------------------------------------------------------------------------
(* extract_text_from_pdf *)

\* the (page_number, text) pairs of the pages that have text, from position p on
RECURSIVE PagesFrom(_, _)
PagesFrom(pages, p) ==
    IF p > Len(pages) THEN <<>>
    ELSE IF strip(pages[p]) # <<>>
         THEN <<[page_number |-> p, text |-> pages[p]]>> \o PagesFrom(pages, p + 1)
         ELSE PagesFrom(pages, p + 1)

\* an unreadable file raises inside the try: the except returns []
extract_text_from_pdf(f) ==
    IF f.readable THEN PagesFrom(f.pages, 1) ELSE <<>>

----------------------------------------------------------------------------
(* generate_chunk_id *)

Digit == <<"0", "1", "2", "3", "4", "5", "6", "7", "8", "9">>

\* str(n) for n >= 0
RECURSIVE Str(_)
Str(n) == IF n < 10 THEN <<Digit[n + 1]>> ELSE Str(n \div 10) \o <<Digit[(n % 10) + 1]>>

\* a slip: the id drawn from the collection's running row number, not from the
\* chunk's position in its page
generate_chunk_id_FromRowNumber(pdf_filename, page_num, chunk_idx) ==
    pdf_filename \o <<"_">> \o Str(page_num) \o <<"_">> \o Str(next_id + chunk_idx)

\* md5 of f"{pdf_filename}_{page_num}_{chunk_idx}"; the digest stands for its
\* preimage (no collisions)
generate_chunk_id(pdf_filename, page_num, chunk_idx) ==
    pdf_filename \o <<"_">> \o Str(page_num) \o <<"_">> \o Str(chunk_idx)

----------------------------------------------------------------------------
(* add_pdf_to_db *)

\* extract_text_from_pdf of every file, and chunk_text(page_text, chunk_size=500,
\* overlap=50) of every page extracted: both depend on the file alone
Extracted == [f \in DOMAIN Files |-> extract_text_from_pdf(Files[f])]

ChunkLists ==
    [f \in DOMAIN Files |->
        [p \in DOMAIN Extracted[f] |->
            chunk_text(Extracted[f][p].text, IngestChunkSize, IngestOverlap)]]

\* page_chunks of the running call
PageChunks == Extracted[cur.file]

\* chunks = self.chunk_text(page_text, chunk_size=500, overlap=50)
PageList(p) == ChunkLists[cur.file][p]

\* a slip: only empty chunks skipped
TooSmall_OnlyEmpty(chunk) == Len(chunk) = 0

\* if len(chunk) < 50: continue
TooSmall(chunk) == Len(chunk) < MinChunkLen

\* the entity built for one chunk (the embedding itself is not modelled: only
\* whether encode returns or raises)
Entity(chunk, pdf_filename, page_num, chunk_idx) ==
    [text_chunk   |-> PySlice(chunk, 0, MaxTextLen),
     pdf_filename |-> pdf_filename,
     page_number  |-> page_num,
     chunk_id     |-> generate_chunk_id(pdf_filename, page_num, chunk_idx)]

\* client.insert: the rows get fresh primary keys (auto_id) and are appended
Inserted(rows) ==
    [k \in 1..Len(rows) |->
        [id           |-> next_id + k - 1,
         text_chunk   |-> rows[k].text_chunk,
         pdf_filename |-> rows[k].pdf_filename,
         page_number  |-> rows[k].page_number,
         chunk_id     |-> rows[k].chunk_id]]

\* what add_pdf_to_db hands its caller: None on every return path, or the
\* exception that left it
Returned(raised) ==
    IF raised THEN [raised |-> TRUE] ELSE [raised |-> FALSE, ret |-> None]

\* what upload_pdf answers after add_pdf_to_db returned (200) or raised (500)
Answer(raised) ==
    IF raised
    THEN [op |-> "upload", status |-> 500, body |-> "error"]
    ELSE [op |-> "upload", status |-> 200, body |-> "success"]

\* the call c of add_pdf_to_db is left, by return (raised = FALSE) or by an
\* exception, with the collection as newIndex; upload_pdf then removes its
\* temporary file (lines 145-146 and 158-159) and answers
Leave(c, raised, newIndex) ==
    /\ pc' = "idle"
    /\ index' = newIndex
    /\ next_id' = next_id + (Len(newIndex) - Len(index))
    /\ resp' = Answer(raised)
    /\ temp_files' = temp_files \ {c.pdf_filename}
    /\ temp_path' = c.pdf_filename
    /\ calls' = Append(calls,
           [pdf_filename |-> c.pdf_filename,
            file         |-> c.file,
            raised       |-> raised,
            batched      |-> Len(batch),
            before       |-> Len(index),
            added        |-> Len(newIndex) - Len(index),
            count_after  |-> Len(newIndex),   \* get_stats()['total_chunks'] after it
            out          |-> Returned(raised),
            answer       |-> Answer(raised)])

\* add_pdf_to_db(temp_path, filename) up to the loop: extract; nothing
\* extracted returns at once.  The file was saved to TEMP_DIR before.
Enter(fn, f) ==
    LET c == [pdf_filename |-> fn, file |-> f]
    IN  /\ cur' = c
        /\ batch' = <<>>
        /\ total_chunks' = 0
        /\ ci' = 0
        /\ IF Extracted[f] = <<>>
           THEN /\ Leave(c, FALSE, index)
                /\ pi' = 0
           ELSE /\ pc' = "loop"
                /\ pi' = 1
                /\ resp' = NoResp
                /\ temp_files' = temp_files \cup {fn}
                /\ temp_path' = fn
                /\ UNCHANGED <<index, next_id, calls>>

\* the service takes the next request once the last answer went out
Ready == pc = "idle" /\ resp = NoResp

\* return jsonify(...): the answer goes out to the client
Deliver ==
    /\ pc = "idle"
    /\ resp # NoResp
    /\ resp' = NoResp
    /\ UNCHANGED <<index, next_id, pc, cur, pi, ci, batch, total_chunks, temp_files, temp_path, calls>>
    /\ UNCHANGED chunkVars

\* the loops move on to the next chunk, or to the next page
Advance ==
    IF ci + 1 < Len(PageList(pi))
    THEN pi' = pi /\ ci' = ci + 1
    ELSE pi' = pi + 1 /\ ci' = 0

InLoop == pc = "loop" /\ pi <= Len(PageChunks)

CurrentChunk == PageList(pi)[ci + 1]

\* len(chunk) < 50: continue
SkipSmallChunk ==
    /\ InLoop
    /\ TooSmall(CurrentChunk)
    /\ Advance
    /\ UNCHANGED <<index, next_id, pc, cur, batch, total_chunks, temp_files, temp_path, resp, calls>>
    /\ UNCHANGED chunkVars

\* encode returns: the chunk joins the lists
EmbedChunk ==
    /\ InLoop
    /\ ~TooSmall(CurrentChunk)
    /\ batch' = Append(batch,
           Entity(CurrentChunk, cur.pdf_filename, PageChunks[pi].page_number, ci))
    /\ total_chunks' = total_chunks + 1
    /\ Advance
    /\ UNCHANGED <<index, next_id, pc, cur, temp_files, temp_path, resp, calls>>
    /\ UNCHANGED chunkVars

\* a slip: what was embedded so far is written before the exception leaves
EncodeRaises_Flush ==
    /\ InLoop
    /\ ~TooSmall(CurrentChunk)
    /\ Leave(cur, TRUE, index \o Inserted(batch))
    /\ UNCHANGED <<cur, pi, ci, batch, total_chunks>>
    /\ UNCHANGED chunkVars

\* encode raises: the exception leaves add_pdf_to_db, nothing was inserted
EncodeRaises ==
    /\ InLoop
    /\ ~TooSmall(CurrentChunk)
    /\ Leave(cur, TRUE, index)
    /\ UNCHANGED <<cur, pi, ci, batch, total_chunks>>
    /\ UNCHANGED chunkVars

\* after the loops: one insert of everything prepared, or nothing to insert
InsertBatch ==
    /\ pc = "loop"
    /\ pi > Len(PageChunks)
    /\ Leave(cur, FALSE, IF batch # <<>> THEN index \o Inserted(batch) ELSE index)
    /\ UNCHANGED <<cur, pi, ci, batch, total_chunks>>
    /\ UNCHANGED chunkVars

----------------------------------------------------------------------------
(* upload_pdf (POST /api/upload) *)

Lower(c) == IF c = "P" THEN "p" ELSE IF c = "D" THEN "d" ELSE IF c = "F" THEN "f" ELSE c

\* filename.lower().endswith('.pdf')
EndsWithPdf(fn) ==
    /\ Len(fn) >= 4
    /\ [k \in 1..4 |-> Lower(fn[Len(fn) - 4 + k])] = <<".", "p", "d", "f">>

\* no file, an empty filename or another extension: 400 before anything is saved
UploadRejected ==
    /\ Ready
    /\ \E fn \in UploadNames :
           /\ fn = <<>> \/ ~EndsWithPdf(fn)
           /\ resp' = [op |-> "upload", status |-> 400, body |-> "error"]
    /\ UNCHANGED <<index, next_id, pc, cur, pi, ci, batch, total_chunks, temp_files, temp_path, calls>>
    /\ UNCHANGED chunkVars

\* the file is saved to TEMP_DIR, then r2_storage.upload_pdf returns False
UploadStorageFails ==
    /\ Ready
    /\ \E fn \in UploadNames :
           /\ fn # <<>> /\ EndsWithPdf(fn)
           /\ temp_files' = temp_files \cup {fn}
           /\ temp_path' = fn
           /\ resp' = [op |-> "upload", status |-> 500, body |-> "error"]
    /\ UNCHANGED <<index, next_id, pc, cur, pi, ci, batch, total_chunks, calls>>
    /\ UNCHANGED chunkVars

\* the file is saved, stored in R2, and add_pdf_to_db(temp_path, filename) starts
UploadPdf ==
    /\ Ready
    /\ Len(calls) < MaxCalls
    /\ \E fn \in UploadNames, f \in DOMAIN Files :
           /\ fn # <<>> /\ EndsWithPdf(fn)
           /\ Enter(fn, f)
    /\ UNCHANGED chunkVars

----------------------------------------------------------------------------
(* search *)

FilterPrefix ==
    <<"p","d","f","_","f","i","l","e","n","a","m","e"," ","=","="," ","\"">>

\* f'pdf_filename == "{filter_pdf}"'
FilterExpr(filter_pdf) == FilterPrefix \o filter_pdf \o <<"\"">>

\* 1-based position of the first c in s, 0 when there is none
RECURSIVE FindFrom(_, _, _)
FindFrom(s, c, i) ==
    IF i > Len(s) THEN 0
    ELSE IF s[i] = c THEN i
    ELSE FindFrom(s, c, i + 1)

\* how the collection reads a filter expression: the string literal runs to the
\* next double quote; anything after that quote is a parse error
ParseFilter(expr) ==
    LET rest  == SubSeq(expr, Len(FilterPrefix) + 1, Len(expr))
        close == FindFrom(rest, "\"", 1)
    IN  IF SubSeq(expr, 1, Len(FilterPrefix)) = FilterPrefix /\ close = Len(rest)
        THEN [ok |-> TRUE, literal |-> SubSeq(rest, 1, close - 1)]
        ELSE [ok |-> FALSE]

\* if filter_pdf: filter_expr = ...; the positions of the rows client.search may
\* return, or the error it raises
Matching(filter_pdf) ==
    IF filter_pdf = None \/ filter_pdf = <<>>
    THEN [ok |-> TRUE, rows |-> 1..Len(index)]
    ELSE LET parsed == ParseFilter(FilterExpr(filter_pdf))
         IN  IF parsed.ok
             THEN [ok |-> TRUE,
                   rows |-> {k \in 1..Len(index) : index[k].pdf_filename = parsed.literal}]
             ELSE [ok |-> FALSE]

\* the positions in S, ascending
RECURSIVE Ascending(_)
Ascending(S) ==
    IF S = {} THEN <<>>
    ELSE LET m == CHOOSE x \in S : \A y \in S : x <= y
         IN  <<m>> \o Ascending(S \ {m})

\* formatted_results for the hits at the positions of S
Formatted(S) ==
    LET pos == Ascending(S)
    IN  [k \in 1..Len(pos) |->
            [text         |-> index[pos[k]].text_chunk,
             pdf_filename |-> index[pos[k]].pdf_filename,
             page_number  |-> index[pos[k]].page_number,
             chunk_id     |-> index[pos[k]].chunk_id]]

\* POST /api/search with a non-empty query: the top_k nearest rows that pass the
\* filter (which rows are nearest is the embedding model's business: any top_k
\* of them), or the 500 answer for an exception
Search ==
    /\ Ready
    /\ \E filter_pdf \in Filters, top_k \in TopKs :
           LET m == Matching(filter_pdf)
           IN  IF m.ok
               THEN \E hits \in SUBSET m.rows :
                        /\ Cardinality(hits) = Min2(top_k, Cardinality(m.rows))
                        /\ resp' = [op |-> "search", status |-> 200,
                                    filter |-> filter_pdf, top_k |-> top_k,
                                    results |-> Formatted(hits)]
               ELSE resp' = [op |-> "search", status |-> 500,
                             filter |-> filter_pdf, top_k |-> top_k]
    /\ UNCHANGED <<index, next_id, pc, cur, pi, ci, batch, total_chunks, temp_files, temp_path, calls>>
    /\ UNCHANGED chunkVars

\* the query is empty: 400
SearchNoQuery ==
    /\ Ready
    /\ resp' = [op |-> "search", status |-> 400]
    /\ UNCHANGED <<index, next_id, pc, cur, pi, ci, batch, total_chunks, temp_files, temp_path, calls>>
    /\ UNCHANGED chunkVars

----------------------------------------------------------------------------
(* Spec: the service *)

Init ==
    /\ DbInit
    /\ text = <<>>
    /\ chunk_size = IngestChunkSize
    /\ overlap = IngestOverlap
    /\ start = 0
    /\ chunks = <<>>
    /\ windows = <<>>
    /\ cpc = "off"

Next ==
    \/ SkipSmallChunk
    \/ EmbedChunk
    \/ EncodeRaises
    \/ InsertBatch
    \/ UploadRejected
    \/ UploadStorageFails
    \/ UploadPdf
    \/ Search
    \/ SearchNoQuery
    \/ Deliver

Spec == Init /\ [][Next]_vars

----------------------------------------------------------------------------
(* Properties of chunk_text, stated without the operators of the model *)

\* s without its leading whitespace
RECURSIVE TrimLeft(_)
TrimLeft(s) ==
    IF s = <<>> THEN <<>>
    ELSE IF Head(s) \in Whitespace THEN TrimLeft(Tail(s))
    ELSE s

\* s without its trailing whitespace
RECURSIVE TrimRight(_)
TrimRight(s) ==
    IF s = <<>> THEN <<>>
    ELSE IF s[Len(s)] \in Whitespace THEN TrimRight(SubSeq(s, 1, Len(s) - 1))
    ELSE s

Trim(s) == TrimRight(TrimLeft(s))

\* 0-based offset of the last '.' or newline among the first n characters of s,
\* -1 when there is none
RECURSIVE LastBreakIn(_, _)
LastBreakIn(s, n) ==
    IF n = 0 THEN -1
    ELSE IF s[n] \in {".", "\n"} THEN n - 1
    ELSE LastBreakIn(s, n - 1)

LastBreak(s) == LastBreakIn(s, Len(s))

\* the characters of text at the 0-based range [a, b), for 0 <= a
Range(a, b) == SubSeq(text, a + 1, Min2(b, Len(text)))

\* C5 (as claimed): chunk_text called with overlap >= chunk_size on a non-empty
\* text rejects or clamps the parameters: no pass through the loop body ever
\* runs with overlap >= chunk_size.
C5_RejectsOrClamps ==
    (text # <<>> /\ windows # <<>>) => overlap < chunk_size

\* What the loop does with such parameters: the cursor never gets past 0, so the
\* loop condition start < text_length never fails.
InvalidParametersNeverReturn ==
    (text # <<>> /\ overlap >= chunk_size) => (start <= 0 /\ cpc # "done")

\* C10 (as claimed): with 0 <= overlap < chunk_size the cursor strictly increases
\* on every pass through the loop body, snapped windows included.
C10_CursorStrictlyIncreases ==
    [][(cpc = "loop" /\ start < Len(text) /\ overlap < chunk_size) => start' > start]_vars

\* The parameters for which the cursor does advance: a snapped window is longer
\* than chunk_size/2 + 1, so an overlap of at most chunk_size \div 2 + 1 is safe.
CursorIncreasesForSmallOverlap ==
    [][(cpc = "loop" /\ start < Len(text) /\ overlap < chunk_size
           /\ overlap <= chunk_size \div 2 + 1)
          => start' > start]_vars

\* the chunks laid end to end, each after the first without its first `overlap`
\* characters
RECURSIVE Rebuild(_)
Rebuild(n) ==
    IF n = 0 THEN <<>>
    ELSE IF n = 1 THEN chunks[1]
    ELSE Rebuild(n - 1) \o SubSeq(chunks[n], overlap + 1, Len(chunks[n]))

\* C6 (as claimed): when chunk_text returns at least one chunk, the chunks laid
\* end to end without the overlapping parts are the original text.
C6_ReconstructsExactly ==
    (cpc = "done" /\ chunks # <<>>) => Rebuild(Len(chunks)) = text

\* C6 (amended): when chunk_text returns at least one chunk, every chunk taken
\* at a cursor >= 0 is the text of its character range with leading and trailing
\* whitespace trimmed, and every character of the text lies in the range of
\* such a chunk: the text is reconstructed up to the whitespace trimmed off the
\* ends of the chunks.
C6_CoverageUpToTrim ==
    (cpc = "done" /\ chunks # <<>>) =>
        /\ \A i \in 1..Len(chunks) :
               windows[i].start >= 0 =>
                   chunks[i] = Trim(Range(windows[i].start, windows[i].end))
        /\ \A p \in 1..Len(text) :
               \E i \in 1..Len(chunks) :
                   /\ 0 <= windows[i].start
                   /\ windows[i].start < p
                   /\ p <= windows[i].end

C6_Witness ==
    /\ cpc = "done"
    /\ Len(chunks) >= 2
    /\ \E i \in 1..Len(chunks) :
           chunks[i] # Range(windows[i].start, windows[i].end)

\* the chunk the claim expects of pass i, before any trimming
SnappedWindow(i) ==
    LET st   == windows[i].start
        win  == Range(st, st + chunk_size)
        last == LastBreak(win)
    IN  IF 2 * last > chunk_size THEN Range(st, st + last + 1) ELSE win

\* pass i looked at a window that ends strictly before the end of the text
InnerWindow(i) == windows[i].start >= 0 /\ windows[i].start + chunk_size < Len(text)

\* C7 (as claimed): a window that ends before the end of the text is emitted up
\* to and including its last '.' or newline when that lies past half of
\* chunk_size, and in full otherwise; the example's first chunk is "Sentence one.".
C7_SnapAsClaimed ==
    /\ \A i \in 1..Len(chunks) : InnerWindow(i) => chunks[i] = SnappedWindow(i)
    /\ (text = SentenceText /\ chunks # <<>>) => chunks[1] = SentenceOne

\* C7 (amended): such a window is cut after its last '.' or newline when that
\* lies past half of chunk_size, and kept in full otherwise; the chunk emitted
\* is the window with leading and trailing whitespace trimmed.
C7_SnapThenTrim ==
    /\ \A i \in 1..Len(chunks) : InnerWindow(i) => chunks[i] = Trim(SnappedWindow(i))
    /\ (text = SentenceText /\ chunks # <<>>) => chunks[1] = SentenceOne

C7_Witness ==
    /\ text = SentenceText
    /\ chunk_size = 20
    /\ overlap = 5
    /\ cpc = "done"
    /\ chunks[1] = SentenceOne
    /\ Len(chunks) >= 3

----------------------------------------------------------------------------
(* Properties of the service *)

\* the rows the finished call c added, without their primary keys
RowsOf(c) ==
    [k \in 1..c.added |->
        [text_chunk  |-> index[c.before + k].text_chunk,
         page_number |-> index[c.before + k].page_number,
         chunk_id    |-> index[c.before + k].chunk_id]]

SameDocument(c, d) == c.pdf_filename = d.pdf_filename /\ c.file = d.file

\* C1 (as claimed): ingesting the same file under the same pdf_filename a second
\* time leaves total_chunks what it was after the first ingest.
C1_ReingestKeepsCount ==
    \A i \in 1..(Len(calls) - 1) :
        (SameDocument(calls[i], calls[i + 1]) /\ ~calls[i].raised /\ ~calls[i + 1].raised)
            => calls[i + 1].count_after = calls[i].count_after

\* What the collection does instead: the primary key is auto-generated, so every
\* insert appends and total_chunks grows by the number of rows prepared.
ReingestAppends ==
    \A i \in 1..Len(calls) : calls[i].count_after = calls[i].before + calls[i].added

\* C2: every stored chunk has between 50 and 2000 characters, and so has every
\* chunk a search returns.
C2_MinimumLength ==
    /\ \A k \in 1..Len(index) :
           /\ Len(index[k].text_chunk) >= MinChunkLen
           /\ Len(index[k].text_chunk) <= MaxTextLen
    /\ (resp.op = "search" /\ resp.status = 200) =>
           \A k \in 1..Len(resp.results) :
               /\ Len(resp.results[k].text) >= MinChunkLen
               /\ Len(resp.results[k].text) <= MaxTextLen

\* a document with chunks under 50 characters was ingested, one with none too,
\* and a search returned rows
C2_Witness ==
    /\ \E i \in 1..Len(calls) : calls[i].file = 5 /\ calls[i].added = 3
    /\ \E i \in 1..Len(calls) : calls[i].file = 3 /\ ~calls[i].raised /\ calls[i].added = 0
    /\ resp.op = "search"
    /\ resp.status = 200
    /\ resp.results # <<>>

\* the chunks of at least 50 characters of the pages from position p on, with
\* their page numbers, in ingest order
RECURSIVE ValidChunks(_, _)
ValidChunks(pages, p) ==
    IF p > Len(pages) THEN <<>>
    ELSE LET list == chunk_text(pages[p], IngestChunkSize, IngestOverlap)
             kept == SelectSeq(list, LAMBDA ch : Len(ch) >= MinChunkLen)
         IN  (IF \E k \in 1..Len(pages[p]) : pages[p][k] \notin Whitespace
              THEN [k \in 1..Len(kept) |-> [text_chunk |-> kept[k], page_number |-> p]]
              ELSE <<>>)
             \o ValidChunks(pages, p + 1)

ValidChunksOf == [f \in DOMAIN Files |-> ValidChunks(Files[f].pages, 1)]

\* C3: a call of add_pdf_to_db inserts nothing before its loops are done; one
\* left by a failed embedding, or given an unreadable file, has inserted
\* nothing; every other call has inserted all the chunks of at least 50
\* characters of the document.
C3_AllOrNothing ==
    /\ pc = "loop" =>
           Len(index) = (IF calls = <<>> THEN 0 ELSE calls[Len(calls)].count_after)
    /\ \A i \in 1..Len(calls) :
           LET c == calls[i]
           IN  IF c.raised \/ ~Files[c.file].readable
               THEN c.added = 0
               ELSE [k \in 1..c.added |->
                        [text_chunk  |-> RowsOf(c)[k].text_chunk,
                         page_number |-> RowsOf(c)[k].page_number]]
                    = ValidChunksOf[c.file]

\* an embedding failed after chunks of the document had been prepared, and
\* another call inserted a whole document
C3_Witness ==
    /\ \E i \in 1..Len(calls) :
           calls[i].raised /\ calls[i].batched >= 2 /\ calls[i].added = 0
    /\ \E i \in 1..Len(calls) : ~calls[i].raised /\ calls[i].added = 3

\* C4 (as claimed): an ingest that stored no chunk gives the caller of
\* add_pdf_to_db, and the client of the upload, an outcome different from that
\* of an ingest that stored chunks.
C4_NoContentIsDistinct ==
    \A i, j \in 1..Len(calls) :
        (~calls[i].raised /\ calls[i].added = 0 /\ ~calls[j].raised /\ calls[j].added > 0)
            => /\ calls[i].out # calls[j].out
               /\ calls[i].answer # calls[j].answer

\* C8 (as claimed): a search with a document filter returns only rows of that
\* document, and when no stored row is of that document it returns an empty
\* list, not an error.
C8_FilterCorrect ==
    (resp.op = "search" /\ resp.status # 400 /\ resp.filter \notin {None, <<>>}) =>
        /\ resp.status = 200 =>
               \A k \in 1..Len(resp.results) : resp.results[k].pdf_filename = resp.filter
        /\ (\A k \in 1..Len(index) : index[k].pdf_filename # resp.filter) =>
               (resp.status = 200 /\ resp.results = <<>>)

\* What holds of every filter without a double quote in it.
FilterCorrectWithoutQuote ==
    (resp.op = "search" /\ resp.status # 400 /\ resp.filter \notin {None, <<>>}
        /\ \A k \in 1..Len(resp.filter) : resp.filter[k] # "\"") =>
        /\ resp.status = 200
        /\ \A k \in 1..Len(resp.results) : resp.results[k].pdf_filename = resp.filter

\* C9: two finished ingests of the same file under the same pdf_filename give
\* their chunks the same chunk_id values, chunk by chunk.
C9_SameIdsOnReingest ==
    \A i, j \in 1..Len(calls) :
        (SameDocument(calls[i], calls[j]) /\ ~calls[i].raised /\ ~calls[j].raised)
            => RowsOf(calls[i]) = RowsOf(calls[j])

\* the same three-chunk document was ingested twice
C9_Witness ==
    \E i, j \in 1..Len(calls) :
        /\ i < j
        /\ SameDocument(calls[i], calls[j])
        /\ calls[i].added = 3
        /\ calls[j].added = 3

----------------------------------------------------------------------------
(* Temporary file of an upload request *)

\* the response of an upload request that saved its file: 200, or the 500 of
\* a storage failure or of an exception while indexing
SavedUploadAnswered == resp.op = "upload" /\ resp.status \in {200, 500}

\* C11: whenever the response of an upload request that saved its temporary
\* file is returned (storage succeeded, storage returned failure, or an
\* exception was raised), the file it wrote is no longer in TEMP_DIR.
C11_TempFileRemoved ==
    SavedUploadAnswered => temp_path \notin temp_files

\* what the code does on the path that answers 200: the file is removed
TempFileRemovedAfterStorageSuccess ==
    (SavedUploadAnswered /\ resp.status = 200) => temp_path \notin temp_files

====
